---- MODULE Spec2Model ----
(***************************************************************************)
(* A model of hypothesis-cats: the category propagation strategies         *)
(* (cat_strategies.py) and the exception-expectation checker               *)
(* (cat_checks.py, cat_desc.py).                                           *)
(*                                                                         *)
(* Python values are modelled as records of one uniform shape:             *)
(*   shape    "str" | "Cat" | "ExCat" | "dict"                             *)
(*   name     the string itself (str), the name attribute (Cat, ExCat) or  *)
(*            the value under the 'name' key (dict); "" stands for None    *)
(*   comment  the comment attribute / value, "" for None                   *)
(*   keys     the keys of a dict                                           *)
(*   raises   the raw value under the 'raises' key of a dict               *)
(*   guards   the list self.raises of an ExCat object                      *)
(* A Python dict is a sequence of entries in insertion order.  A call that *)
(* may raise returns [raised |-> <exception type or "">, val |-> <value>]. *)
(* A message is a sequence of words, a pattern is the sequence of words it *)
(* anchors at the start of the message ('^Name' is <<"Name">>).            *)
(* The model takes the package as imported, i.e. the annotation of         *)
(* Cat.from_dict (cat_desc.py:58) as not evaluated at class creation.      *)
(***************************************************************************)
EXTENDS Integers, Sequences, FiniteSets, TLC

VARIABLES
    \* the outcome checker
    pc,         \* "idle", "constructed", "pending", "resolved", "failed"
    cts,        \* CatChecker.cts, the layout
    ctg_defs,   \* CatChecker.ctg_defs, the parsed table
    exc,        \* the exception the section exited with, NoExc for none
    result,     \* what the latest call returned or raised
    subject,    \* the guard or category a method was called on directly
    \* the propagation strategies
    phase,      \* "between", "drawing", "body"
    heap,       \* the live dict objects: id -> layout
    slot,       \* the value shared under CATS_LAYOUT_KEY, 0 before the first draw
    draws,      \* the number of strategies drawn in this example
    accessed,   \* the layout accesses of this example: the dictObj and the
                \* id of the first, the dictObj's given and the ids returned
    handed,     \* the id cats() handed to the test body, 0 for none
    last,       \* the latest draw: its class, pair and returned value
    written     \* class -> marker of the latest classify of this example

vars == <<pc, cts, ctg_defs, exc, result, subject,
          phase, heap, slot, draws, accessed, handed, last,
          written>>

ckvars == <<pc, cts, ctg_defs, exc, result>>
stvars == <<phase, heap, slot, draws, accessed, handed, last,
            written>>
\* what the actions of the checker leave alone
ckframe == <<subject, stvars>>

\* ------------------------------------------------------------------ bounds
\* Largest number of entries of a layout handed to CatChecker.
MaxLayout == 2
\* Largest number of guards of a category a method is called on directly.
MaxGuards == 2
\* Largest number of strategies drawn in one example.
MaxDraws == 3

\* ------------------------------------------------------- results of calls
Ok(v) == [raised |-> "", val |-> v]
Raise(e, v) == [raised |-> e, val |-> v]

\* A local variable: the value of a call, named in the rest of the body.
With(value, Body(_)) == Body(value)

\* ------------------------------------------------------------ exceptions
\* isinstance(ex, err) for the exception types of the model.
IsInstance(extype, err) == err = extype \/ err = "Exception"

\* re.Pattern.match(str(ex)): the pattern has to match at the start.
PatternMatch(pattern, msg) ==
    /\ Len(pattern) <= Len(msg)
    /\ SubSeq(msg, 1, Len(pattern)) = pattern

NoPattern == <<>>
NoRequires == <<>>
NoRaises == [kind |-> "none", items |-> <<>>]
NoExc == [type |-> "", msg |-> <<>>]

\* --------------------------------------------------------- python values
Str(s) == [shape |-> "str", name |-> s, comment |-> "", keys |-> {},
           raises |-> NoRaises, guards |-> <<>>]
CatObj(n, c) == [shape |-> "Cat", name |-> n, comment |-> c, keys |-> {},
                 raises |-> NoRaises, guards |-> <<>>]
ExCatObj(n, c, gs) == [shape |-> "ExCat", name |-> n, comment |-> c,
                       keys |-> {}, raises |-> NoRaises, guards |-> gs]
Dict(ks, n, c, r) == [shape |-> "dict", name |-> n, comment |-> c,
                      keys |-> ks, raises |-> r, guards |-> <<>>]
None == Str("")

\* dict operations on a sequence of [cls, ctg] entries
HasKey(d, k) == \E i \in DOMAIN d : d[i].cls = k
Get(d, k) == d[CHOOSE i \in DOMAIN d : d[i].cls = k].ctg
Keys(d) == {d[i].cls : i \in DOMAIN d}
\* d[k] = v: an existing key keeps its place, a new key goes last.
Put(d, k, v) ==
    IF HasKey(d, k)
    THEN [i \in DOMAIN d |-> IF d[i].cls = k THEN [cls |-> k, ctg |-> v]
                                             ELSE d[i]]
    ELSE Append(d, [cls |-> k, ctg |-> v])

\* ------------------------------------------------------------- Cat
\* Cat.__init__ without the check of the name
Cat_init_unchecked(name, comment) == Ok(CatObj(name, comment))

\* Cat.__init__
Cat_init(name, comment) ==
    IF name = "" THEN Raise("ValueError", None)
    ELSE Ok(CatObj(name, comment))

\* Cat.from_dict: Cat(**d)
Cat_from_dict(d) ==
    IF ~(d.keys \subseteq {"name", "comment"}) THEN Raise("TypeError", None)
    ELSE Cat_init(IF "name" \in d.keys THEN d.name ELSE "",
                  IF "comment" \in d.keys THEN d.comment ELSE "")

tryGetCatName(ctg) ==
    IF ctg.shape \in {"Cat", "ExCat"} THEN Ok(ctg.name)
    ELSE IF ctg.shape = "dict"
         THEN With(Cat_from_dict(ctg), LAMBDA ctgobj :
                  IF ctgobj.raised # "" THEN Raise(ctgobj.raised, "")
                  ELSE Ok(ctgobj.val.name))
         ELSE Ok(ctg.name)

\* --------------------------------------------------------- GuardedRaises
NoGuard == [err |-> "", hasPattern |-> FALSE, pattern |-> NoPattern,
            requires |-> NoRequires]

\* GuardedRaises.__init__: self.pattern is set only for a truthy pattern.
GuardedRaises_init(err, pattern, requires) ==
    IF err = "" THEN Raise("ValueError", NoGuard)
    ELSE Ok([err |-> err, hasPattern |-> pattern # NoPattern,
             pattern |-> pattern, requires |-> requires])

RECURSIVE checkReqsFrom(_, _, _)
checkReqsFrom(requires, i, layout) ==
    IF i > Len(requires) THEN Ok(TRUE)
    ELSE LET r == requires[i].cls
             n == requires[i].name
         IN  IF n = "" THEN checkReqsFrom(requires, i + 1, layout)
             ELSE IF ~HasKey(layout, r) THEN Ok(FALSE)
             ELSE With(tryGetCatName(Get(layout, r)), LAMBDA nm :
                      IF nm.raised # "" THEN Raise(nm.raised, FALSE)
                      ELSE IF n # nm.val THEN Ok(FALSE)
                      ELSE checkReqsFrom(requires, i + 1, layout))

\* GuardedRaises.checkReqs
checkReqs(g, layout) ==
    IF g.requires # NoRequires THEN checkReqsFrom(g.requires, 1, layout)
    ELSE Ok(TRUE)

\* GuardedRaises.isExpected: reading self.pattern of a guard built without
\* a pattern raises AttributeError.
GuardedRaises_isExpected(g, ex, layout) ==
    IF IsInstance(ex.type, g.err)
    THEN IF ~g.hasPattern THEN Raise("AttributeError", FALSE)
         ELSE IF PatternMatch(g.pattern, ex.msg) THEN checkReqs(g, layout)
         ELSE Ok(FALSE)
    ELSE Ok(FALSE)

\* GuardedRaises.__repr__
GuardedRaises_repr(g) ==
    IF ~g.hasPattern THEN Raise("AttributeError", <<>>)
    ELSE Ok(<<g.err, "(/">> \o g.pattern \o <<"/)">>)

\* ----------------------------------------------------------------- ExCat
\* ExCat.appendRaises; r is a raw guard [form, err, pattern, requires].
appendRaises(guards, r) ==
    IF r.form = "type"
    THEN With(GuardedRaises_init(r.err, NoPattern, NoRequires), LAMBDA g :
             IF g.raised # "" THEN Raise(g.raised, guards)
             ELSE Ok(Append(guards, g.val)))
    ELSE IF r.form = "dict"
    THEN With(GuardedRaises_init(r.err, r.pattern, r.requires), LAMBDA g :
             IF g.raised # "" THEN Raise(g.raised, guards)
             ELSE Ok(Append(guards, g.val)))
    ELSE IF r.form = "GuardedRaises"
    THEN Ok(Append(guards, [err |-> r.err, hasPattern |-> r.pattern # NoPattern,
                            pattern |-> r.pattern, requires |-> r.requires]))
    ELSE Raise("TypeError", guards)

RECURSIVE appendAll(_, _, _)
appendAll(guards, items, i) ==
    IF i > Len(items) THEN Ok(guards)
    ELSE With(appendRaises(guards, items[i]), LAMBDA a :
             IF a.raised # "" THEN a ELSE appendAll(a.val, items, i + 1))

\* ExCat.__init__
ExCat_init(name, comment, raises) ==
    With(Cat_init(name, comment), LAMBDA base :
        IF base.raised # "" THEN base
        ELSE IF raises.kind = "none" \/ raises.items = <<>>
             THEN Ok(ExCatObj(name, comment, <<>>))
        ELSE With(IF raises.kind = "seq"
                  THEN appendAll(<<>>, raises.items, 1)
                  ELSE appendRaises(<<>>, raises.items[1]), LAMBDA gs :
                 IF gs.raised # "" THEN Raise(gs.raised, None)
                 ELSE Ok(ExCatObj(name, comment, gs.val))))

\* ExCat(**d) for a dict d
ExCat_kwargs(d, defaultName) ==
    IF ~(d.keys \subseteq {"name", "comment", "raises"})
    THEN Raise("TypeError", None)
    ELSE ExCat_init(IF "name" \in d.keys THEN d.name ELSE defaultName,
                    IF "comment" \in d.keys THEN d.comment ELSE "",
                    IF "raises" \in d.keys THEN d.raises ELSE NoRaises)

\* ExCat.from_dict: _d is built and dropped, the call is cls(**d).
ExCat_from_dict(d) ==
    IF "name" \notin d.keys THEN Raise("KeyError", None)
    ELSE ExCat_kwargs(d, "")

RECURSIVE isExpectedFrom(_, _, _, _)
isExpectedFrom(guards, i, ex, layout) ==
    IF i > Len(guards) THEN Ok(FALSE)
    ELSE With(GuardedRaises_isExpected(guards[i], ex, layout), LAMBDA r :
             IF r.raised # "" THEN r
             ELSE IF r.val THEN Ok(TRUE)
             ELSE isExpectedFrom(guards, i + 1, ex, layout))

\* ExCat.isExpected
ExCat_isExpected(exctg, ex, layout) == isExpectedFrom(exctg.guards, 1, ex, layout)

RECURSIVE expectedRaisesFrom(_, _, _, _)
expectedRaisesFrom(guards, i, layout, expected) ==
    IF i > Len(guards) THEN Ok(expected)
    ELSE With(checkReqs(guards[i], layout), LAMBDA r :
             IF r.raised # "" THEN Raise(r.raised, expected)
             ELSE expectedRaisesFrom(guards, i + 1, layout,
                      IF r.val THEN Append(expected, guards[i]) ELSE expected))

\* ExCat.expectedRaises
ExCat_expectedRaises(exctg, layout) ==
    expectedRaisesFrom(exctg.guards, 1, layout, <<>>)

\* tryExCat; defs is the parsed sub-table of one class, a function from
\* category names to ExCat objects.
tryExCat(ctg, defs) ==
    With(IF ctg.shape = "ExCat" THEN Ok(ctg)
         ELSE IF ctg.shape = "Cat"
              THEN ExCat_init(ctg.name, ctg.comment, NoRaises)
         ELSE IF ctg.shape = "dict" THEN ExCat_from_dict(ctg)
         ELSE Ok(None), LAMBDA exctg :
        IF exctg.raised # ""
        THEN [raised |-> exctg.raised, found |-> FALSE, cat |-> None]
        ELSE IF exctg.val # None
             THEN [raised |-> "", found |-> TRUE, cat |-> exctg.val]
        ELSE IF DOMAIN defs # {} /\ ctg.name \in DOMAIN defs
             THEN [raised |-> "", found |-> TRUE, cat |-> defs[ctg.name]]
        ELSE [raised |-> "", found |-> FALSE, cat |-> None])

\* ------------------------------------------------------------- parseCats
EmptyMap == [x \in {} |-> None]

\* parseCats taking an ExCat for a plain Cat: it is wrapped anew
parseEntry_rewrap(ctgname, ctg) ==
    With(IF ctg.shape \in {"Cat", "ExCat"}
         THEN ExCat_init(ctg.name, ctg.comment, NoRaises)
         ELSE IF ctg.shape = "dict" THEN ExCat_kwargs(ctg, ctgname)
         ELSE Raise("TypeError", None), LAMBDA exctg :
        IF exctg.raised # "" THEN exctg
        ELSE IF exctg.val.name # ctgname THEN Raise("ValueError", None)
        ELSE exctg)

\* parseCats without the comparison of the name with the key
parseEntry_unchecked(ctgname, ctg) ==
    IF ctg.shape = "ExCat" THEN Ok(ctg)
    ELSE IF ctg.shape = "Cat"
         THEN ExCat_init(ctg.name, ctg.comment, NoRaises)
    ELSE IF ctg.shape = "dict" THEN ExCat_kwargs(ctg, ctgname)
    ELSE Raise("TypeError", None)

\* The body of the inner loop of parseCats for one (ctgname, ctg) entry.
parseEntry(ctgname, ctg) ==
    With(IF ctg.shape = "ExCat" THEN Ok(ctg)
         ELSE IF ctg.shape = "Cat"
              THEN ExCat_init(ctg.name, ctg.comment, NoRaises)
         ELSE IF ctg.shape = "dict"
              THEN ExCat_kwargs(ctg, ctgname)
         ELSE Raise("TypeError", None), LAMBDA exctg :
        IF exctg.raised # "" THEN exctg
        ELSE IF exctg.val.name # ctgname THEN Raise("ValueError", None)
        ELSE exctg)

RECURSIVE parseEntries(_, _, _)
parseEntries(entries, i, acc) ==
    IF i > Len(entries) THEN Ok(acc)
    ELSE With(parseEntry(entries[i].key, entries[i].ctg), LAMBDA e :
             IF e.raised # "" THEN Raise(e.raised, EmptyMap)
             ELSE parseEntries(entries, i + 1, (entries[i].key :> e.val) @@ acc))

RECURSIVE parseClasses(_, _, _)
parseClasses(desc_layout, i, ret) ==
    IF i > Len(desc_layout) THEN Ok(ret)
    ELSE With(parseEntries(desc_layout[i].entries, 1, EmptyMap), LAMBDA sub :
             IF sub.raised # "" THEN Raise(sub.raised, EmptyMap)
             ELSE parseClasses(desc_layout, i + 1,
                               (desc_layout[i].cls :> sub.val) @@ ret))

\* parseCats; desc_layout is a sequence of [cls, entries], entries a
\* sequence of [key, ctg].
parseCats(desc_layout) == parseClasses(desc_layout, 1, EmptyMap)

\* ------------------------------------------------------------ CatChecker
\* CatChecker.tryGetCat
tryGetCat(layout, defs, cls) ==
    IF DOMAIN defs # {} /\ cls \in DOMAIN defs
    THEN tryExCat(Get(layout, cls), defs[cls])
    ELSE [raised |-> "", found |-> FALSE, cat |-> None]

RECURSIVE checkerExpectedFrom(_, _, _, _)
checkerExpectedFrom(layout, defs, i, expected) ==
    IF i > Len(layout) THEN Ok(expected)
    ELSE With(tryGetCat(layout, defs, layout[i].cls), LAMBDA exctg :
             IF exctg.raised # "" THEN Raise(exctg.raised, expected)
             ELSE IF ~exctg.found
                  THEN checkerExpectedFrom(layout, defs, i + 1, expected)
             ELSE With(ExCat_expectedRaises(exctg.cat, layout), LAMBDA exlist :
                      IF exlist.raised # "" THEN Raise(exlist.raised, expected)
                      ELSE checkerExpectedFrom(layout, defs, i + 1,
                               IF exlist.val # <<>>
                               THEN Append(expected, [cls |-> layout[i].cls,
                                                      exlist |-> exlist.val])
                               ELSE expected)))

\* CatChecker.expectedRaises
expectedRaises(layout, defs) == checkerExpectedFrom(layout, defs, 1, <<>>)

\* '...%s' % expected: the text of the dictionary calls __repr__ of every
\* guard in it.
FormatExpected(expected) ==
    IF \E i \in DOMAIN expected : \E j \in DOMAIN expected[i].exlist :
           GuardedRaises_repr(expected[i].exlist[j]).raised # ""
    THEN Raise("AttributeError", FALSE)
    ELSE Ok(TRUE)

RECURSIVE exitWithFrom(_, _, _, _)
exitWithFrom(layout, defs, i, ex) ==
    IF i > Len(layout) THEN Ok(FALSE)
    ELSE With(tryGetCat(layout, defs, layout[i].cls), LAMBDA exctg :
             IF exctg.raised # "" THEN Raise(exctg.raised, FALSE)
             ELSE IF ~exctg.found THEN exitWithFrom(layout, defs, i + 1, ex)
             ELSE With(ExCat_isExpected(exctg.cat, ex, layout), LAMBDA e :
                      IF e.raised # "" THEN e
                      ELSE IF e.val THEN Ok(TRUE)
                      ELSE exitWithFrom(layout, defs, i + 1, ex)))

\* CatChecker.__exit__: the value returned or the exception raised.
CatChecker_exit(layout, defs, ex) ==
    IF ex # NoExc THEN exitWithFrom(layout, defs, 1, ex)
    ELSE With(expectedRaises(layout, defs), LAMBDA expected :
             IF expected.raised # "" THEN Raise(expected.raised, FALSE)
             ELSE IF expected.val # <<>>
                  THEN IF FormatExpected(expected.val).raised # ""
                       THEN Raise("AttributeError", FALSE)
                       ELSE Raise("AssertionError", FALSE)
             ELSE Ok(FALSE))

\* CatChecker.__init__: the parsed table, {} when no table is given.
CatChecker_init(defs) ==
    IF defs # <<>> THEN parseCats(defs) ELSE Ok(EmptyMap)

\* ---------------------------------------------------- inputs of the model
Classes == {"name", "age", "role"}

MsgName == <<"Name", "should", "not", "be", "empty!">>
MsgAge == <<"Age", "should", "be", "a", "positive", "number!">>
PatName == <<"Name">>
PatAge == <<"Age">>

TypeErrorName == [type |-> "TypeError", msg |-> MsgName]
ValueErrorAge == [type |-> "ValueError", msg |-> MsgAge]
ValueErrorName == [type |-> "ValueError", msg |-> MsgName]
Exceptions == {TypeErrorName, ValueErrorAge, ValueErrorName}

RawType(e) == [form |-> "type", err |-> e, pattern |-> NoPattern,
               requires |-> NoRequires]
RawDict(e, p, r) == [form |-> "dict", err |-> e, pattern |-> p, requires |-> r]
Req(c, n) == [cls |-> c, name |-> n]
One(g) == [kind |-> "one", items |-> <<g>>]
Many(gs) == [kind |-> "seq", items |-> gs]

RawNameGuard == RawDict("TypeError", PatName, NoRequires)
RawAgeGuard == RawDict("ValueError", PatAge, NoRequires)
RawAgeRoleGuard == RawDict("ValueError", PatAge, <<Req("role", "empty")>>)

\* the markers a layout may hold
DocMarker == Dict({"name", "raises"}, "empty", "", One(RawNameGuard))
ExCatMarker == ExCat_init("empty", "", One(RawNameGuard)).val
Markers == { Str("empty"), Str("non-empty"), Str("non-positive"),
             CatObj("empty", ""), Dict({"name"}, "empty", "", NoRaises),
             DocMarker, ExCatMarker }

Entry(k, c) == [key |-> k, ctg |-> c]
Table1(c, k, r) ==
    <<[cls |-> c,
       entries |-> <<Entry(k, Dict({"raises"}, "", "", r))>>]>>

NoTable == <<>>
NameTable == Table1("name", "empty", One(RawNameGuard))
AgeTable == Table1("age", "non-positive", One(RawAgeRoleGuard))
Tables == {
    NoTable,
    NameTable,
    AgeTable,
    \* the table of the docstring of parseCats
    NameTable \o AgeTable,
    \* guards without a pattern
    Table1("name", "empty", One(RawType("TypeError"))),
    Table1("age", "non-positive",
           One(RawDict("ValueError", NoPattern, <<Req("role", "empty")>>))),
    \* lists of guards
    Table1("name", "empty", Many(<<RawAgeGuard, RawNameGuard>>)),
    Table1("name", "empty", Many(<<RawType("TypeError"), RawNameGuard>>)),
    Table1("name", "empty", Many(<<RawNameGuard, RawType("TypeError")>>)),
    \* requirements on another class, one with an empty required value
    Table1("age", "non-positive",
           One(RawDict("ValueError", PatAge, <<Req("name", "empty")>>))),
    Table1("age", "non-positive",
           One(RawDict("ValueError", PatAge,
                       <<Req("name", ""), Req("role", "empty")>>))),
    \* descriptor objects as entries, a class without categories
    <<[cls |-> "name",
       entries |-> <<Entry("empty",
                           ExCat_init("empty", "", One(RawType("Exception"))).val)>>],
      [cls |-> "role",
       entries |-> <<Entry("empty", CatObj("empty", "")),
                     Entry("non-empty", Dict({}, "", "", NoRaises))>>]>>,
    <<[cls |-> "name", entries |-> <<>>]>>,
    \* a name that differs from its key
    <<[cls |-> "name",
       entries |-> <<Entry("empty", Dict({"name"}, "non-empty", "", NoRaises))>>]>>
}

LayoutEntries == [cls : Classes, ctg : Markers]
LayoutsOfLen(n) ==
    {l \in [1..n -> LayoutEntries] :
        \A i, j \in 1..n : l[i].cls = l[j].cls => i = j}
Layouts == UNION {LayoutsOfLen(n) : n \in 0..MaxLayout}

\* -------------------------------------------- the checker as a machine
NoResult == Ok(FALSE)
NoSubject == [guard |-> NoGuard, cat |-> None]

NoDraw == [op |-> "", cls |-> "", catval |-> <<0, None>>,
           alt |-> [marker |-> None, base |-> {}], ret |-> 0,
           raised |-> "", had |-> FALSE, old |-> None]
NoAccess == [first |-> [dictObj |-> 0, id |-> 0], args |-> {}, ids |-> {}]
Access(acc, dictObj, id) ==
    [first |-> IF acc = NoAccess THEN [dictObj |-> dictObj, id |-> id]
               ELSE acc.first,
     args |-> acc.args \cup {dictObj},
     ids |-> acc.ids \cup {id}]

\* the dict object the test passes as dictObj exists before the first example
UserDicts == {1}

StIdle ==
    /\ phase = "between"
    /\ heap = [id \in UserDicts |-> <<>>]
    /\ slot = 0
    /\ draws = 0
    /\ accessed = NoAccess
    /\ handed = 0
    /\ last = NoDraw
    /\ written = EmptyMap

Init ==
    /\ pc = "idle"
    /\ cts = <<>>
    /\ ctg_defs = EmptyMap
    /\ exc = NoExc
    /\ result = NoResult
    /\ subject = NoSubject
    /\ StIdle

\* CatChecker(layout, defs) for a layout and a table of the given sets;
\* self.cts is the layout itself, not a copy
ConstructOf(layouts, tables) ==
    /\ pc = "idle"
    /\ \E layout \in layouts, defs \in tables :
           \E parsed \in {CatChecker_init(defs)} :
               IF parsed.raised # ""
               THEN /\ pc' = "failed"
                    /\ result' = Raise(parsed.raised, FALSE)
                    /\ UNCHANGED <<cts, ctg_defs>>
               ELSE /\ pc' = "constructed"
                    /\ cts' = layout
                    /\ ctg_defs' = parsed.val
                    /\ UNCHANGED result
    /\ UNCHANGED exc
    /\ UNCHANGED ckframe

\* CatChecker(layout, defs) for a layout and a table of the test
Construct == ConstructOf(Layouts, Tables)

\* CatChecker.__enter__
Enter ==
    /\ pc = "constructed"
    /\ pc' = "pending"
    /\ UNCHANGED <<cts, ctg_defs, exc, result>>
    /\ UNCHANGED ckframe

\* an __exit__ that keeps the categories it resolved in the layout
Exit_caching(ex) ==
    /\ pc = "pending"
    /\ pc' = "resolved"
    /\ exc' = ex
    /\ result' = CatChecker_exit(cts, ctg_defs, ex)
    /\ cts' = [i \in DOMAIN cts |->
                 With(tryGetCat(cts, ctg_defs, cts[i].cls), LAMBDA exctg :
                     IF exctg.raised = "" /\ exctg.found
                     THEN [cts[i] EXCEPT !.ctg = exctg.cat]
                     ELSE cts[i])]
    /\ UNCHANGED ctg_defs
    /\ UNCHANGED ckframe

\* CatChecker.__exit__ for a section that raised ex or returned (NoExc)
Exit(ex) ==
    /\ pc = "pending"
    /\ pc' = "resolved"
    /\ exc' = ex
    /\ result' = CatChecker_exit(cts, ctg_defs, ex)
    /\ UNCHANGED <<cts, ctg_defs>>
    /\ UNCHANGED ckframe

\* the checker goes out of scope
Discard ==
    /\ pc \in {"resolved", "failed"}
    /\ pc' = "idle"
    /\ cts' = <<>>
    /\ ctg_defs' = EmptyMap
    /\ exc' = NoExc
    /\ result' = NoResult
    /\ UNCHANGED ckframe

Next ==
    \/ Construct
    \/ Enter
    \/ \E ex \in Exceptions \cup {NoExc} : Exit(ex)
    \/ Discard

Spec == Init /\ [][Next]_vars

\* ------------------------------------------- methods called directly
\* the guards GuardedRaises(err, pattern, requires) builds
GuardPool ==
    { GuardedRaises_init(a[1], a[2], a[3]).val :
        a \in { <<"TypeError", PatName, NoRequires>>,
                <<"TypeError", NoPattern, NoRequires>>,
                <<"ValueError", PatAge, <<Req("role", "empty")>>>>,
                <<"TypeError", PatName, <<Req("name", "empty")>>>>,
                <<"Exception", PatName,
                  <<Req("age", ""), Req("role", "empty")>>>> } }

GuardLists == UNION {[1..n -> GuardPool] : n \in 0..MaxGuards}

InitFn ==
    /\ pc = "caller"
    /\ cts = <<>>
    /\ ctg_defs = EmptyMap
    /\ exc = NoExc
    /\ result = NoResult
    /\ subject = NoSubject
    /\ StIdle

\* g.checkReqs(layout) for a guard g and a layout
Call_checkReqs ==
    /\ pc = "caller"
    /\ pc' = "checkReqs"
    /\ \E g \in GuardPool, layout \in Layouts :
           /\ subject' = [guard |-> g, cat |-> None]
           /\ cts' = layout
           /\ result' = checkReqs(g, layout)
    /\ UNCHANGED <<ctg_defs, exc, stvars>>

\* ExCat(name, raises=guards).isExpected(ex, layout)
Call_isExpected ==
    /\ pc = "caller"
    /\ pc' = "isExpected"
    /\ \E guards \in GuardLists, ex \in Exceptions, layout \in Layouts :
           /\ subject' = [guard |-> NoGuard,
                          cat |-> ExCatObj("empty", "", guards)]
           /\ cts' = layout
           /\ exc' = ex
           /\ result' = ExCat_isExpected(subject'.cat, ex, layout)
    /\ UNCHANGED <<ctg_defs, stvars>>

\* back in the caller
Return ==
    /\ pc \in {"checkReqs", "isExpected"}
    /\ pc' = "caller"
    /\ cts' = <<>>
    /\ exc' = NoExc
    /\ result' = NoResult
    /\ subject' = NoSubject
    /\ UNCHANGED <<ctg_defs, stvars>>

NextFn ==
    \/ Call_checkReqs
    \/ Call_isExpected
    \/ Return

SpecFn == InitFn /\ [][NextFn]_vars

\* ------------------------------------------ the propagation strategies
\* cat(cat_desc, base_st): the pairs the strategy can produce
cat(cat_desc, base_st) == {<<v, cat_desc>> : v \in base_st}

\* one_of(*onto) over tagged strategies [marker, base]
one_of(onto) == UNION {cat(a.marker, a.base) : a \in onto}

\* the tagged strategies of the test
Positive == [marker |-> Str("positive"), base |-> {1}]
NonPositive == [marker |-> Str("non-positive"), base |-> {0 - 1, 0}]
Zero == [marker |-> Dict({"name"}, "zero", "", NoRaises), base |-> {0}]
Tagged == {Positive, NonPositive, Zero}
\* the unions the test subdivides a class onto
Unions == {{Positive, NonPositive}, Tagged}
DrawClasses == {"name", "age"}
\* dictObj: 0 for None, else the id of a dict object of the test
DictObjs == {0} \cup UserDicts

\* the id of a new dict object: one no live object has
FreshId(hp) == CHOOSE id \in 1..(Cardinality(DOMAIN hp) + 1) : id \notin DOMAIN hp

\* cats without the shared slot: every access returns its own dictObj
cats_unshared(dictObj, sl, hp) ==
    IF dictObj = 0
    THEN [id |-> FreshId(hp), slot |-> IF sl = 0 THEN FreshId(hp) ELSE sl,
          heap |-> (FreshId(hp) :> <<>>) @@ hp]
    ELSE [id |-> dictObj, slot |-> IF sl = 0 THEN dictObj ELSE sl, heap |-> hp]

\* cats(dictObj): st.shared draws __just__(dictObj) on the first access of
\* the example and returns the value kept under CATS_LAYOUT_KEY afterwards.
\* A fresh {} that is not kept is garbage at once.
cats(dictObj, sl, hp) ==
    IF sl # 0 THEN [id |-> sl, slot |-> sl, heap |-> hp]
    ELSE IF dictObj = 0
         THEN [id |-> FreshId(hp), slot |-> FreshId(hp),
               heap |-> (FreshId(hp) :> <<>>) @@ hp]
         ELSE [id |-> dictObj, slot |-> dictObj, heap |-> hp]

\* classify writing to a copy of the layout it was given
classify_copy(layout, class_name, catval) ==
    [cts |-> layout, ret |-> catval[1]]

\* classify with cts.setdefault(class_name, catval[1]): the first write wins
classify_setdefault(layout, class_name, catval) ==
    [cts |-> IF HasKey(layout, class_name) THEN layout
             ELSE Put(layout, class_name, catval[2]),
     ret |-> catval[1]]

\* classify with cts = {class_name: catval[1]}: the other entries are lost
classify_reset(layout, class_name, catval) ==
    [cts |-> <<[cls |-> class_name, ctg |-> catval[2]]>>, ret |-> catval[1]]

\* the last two lines of classify: cts[class_name] = catval[1];
\* return catval[0]
classify(layout, class_name, catval) ==
    [cts |-> Put(layout, class_name, catval[2]), ret |-> catval[1]]

InitSt ==
    /\ pc = "idle"
    /\ cts = <<>>
    /\ ctg_defs = EmptyMap
    /\ exc = NoExc
    /\ result = NoResult
    /\ subject = NoSubject
    /\ StIdle

stframe == <<pc, cts, ctg_defs, exc, result, subject>>

\* the engine starts the next example with nothing shared
BeginExample ==
    /\ phase = "between"
    /\ phase' = "drawing"
    /\ slot' = 0
    /\ draws' = 0
    /\ accessed' = NoAccess
    /\ handed' = 0
    /\ last' = NoDraw
    /\ written' = EmptyMap
    /\ UNCHANGED <<heap, stframe>>

\* the parameter cts=cats(dictObj)
Draw_cats(dictObj) ==
    /\ phase = "drawing"
    /\ draws < MaxDraws
    /\ LET c == cats(dictObj, slot, heap)
       IN  /\ slot' = c.slot
           /\ heap' = c.heap
           /\ accessed' = Access(accessed, dictObj, c.id)
           /\ handed' = c.id
           /\ last' = [NoDraw EXCEPT !.op = "cats"]
    /\ draws' = draws + 1
    /\ UNCHANGED <<phase, written, stframe>>

\* getcat(class_name, dictObj): a missing class raises KeyError and the
\* example ends
Draw_getcat(class_name, dictObj) ==
    /\ phase = "drawing"
    /\ draws < MaxDraws
    /\ LET c == cats(dictObj, slot, heap)
           found == HasKey(c.heap[c.id], class_name)
       IN  /\ slot' = c.slot
           /\ accessed' = Access(accessed, dictObj, c.id)
           /\ last' = [NoDraw EXCEPT
                         !.op = "getcat", !.cls = class_name,
                         !.raised = IF found THEN "" ELSE "KeyError",
                         !.had = found,
                         !.old = IF found THEN Get(c.heap[c.id], class_name)
                                 ELSE None]
           /\ IF found
              THEN /\ heap' = c.heap
                   /\ phase' = phase
              ELSE /\ heap' = [id \in UserDicts |-> c.heap[id]]
                   /\ phase' = "between"
    /\ draws' = draws + 1
    /\ UNCHANGED <<handed, written, stframe>>

\* the body of classify for a base strategy that produces catval, a pair
\* of the tagged strategy alt
ClassifyStep(op, class_name, alt, catval, dictObj) ==
    /\ phase = "drawing"
    /\ draws < MaxDraws
    /\ LET c == cats(dictObj, slot, heap)
           r == classify(c.heap[c.id], class_name, catval)
       IN  /\ slot' = c.slot
           /\ accessed' = Access(accessed, dictObj, c.id)
           /\ heap' = [c.heap EXCEPT ![c.id] = r.cts]
           /\ last' = [op |-> op, cls |-> class_name, catval |-> catval,
                       alt |-> alt, ret |-> r.ret, raised |-> "",
                       had |-> HasKey(c.heap[c.id], class_name),
                       old |-> IF HasKey(c.heap[c.id], class_name)
                               THEN Get(c.heap[c.id], class_name) ELSE None]
    /\ written' = (class_name :> catval[2]) @@ written
    /\ draws' = draws + 1
    /\ UNCHANGED <<phase, handed, stframe>>

\* classify(class_name, base_st, dictObj) with base_st = cat(...)
Draw_classify(class_name, alt, dictObj) ==
    \E catval \in cat(alt.marker, alt.base) :
        ClassifyStep("classify", class_name, alt, catval, dictObj)

\* subdivide(class_name, *onto, dictObj): classify over one_of(*onto)
Draw_subdivide(class_name, onto, dictObj) ==
    \E alt \in onto :
        \E catval \in one_of({alt}) :
            /\ catval \in one_of(onto)
            /\ ClassifyStep("subdivide", class_name, alt, catval, dictObj)

\* every parameter is drawn: the engine calls the test body
RunBody ==
    /\ phase = "drawing"
    /\ phase' = "body"
    /\ UNCHANGED <<heap, slot, draws, accessed, handed, last, written,
                   stframe>>

\* the example is over: what it shared is dropped
EndExample ==
    /\ phase = "body"
    /\ phase' = "between"
    /\ heap' = [id \in UserDicts |-> heap[id]]
    /\ UNCHANGED <<slot, draws, accessed, handed, last, written, stframe>>

\* the engine gives the example up while drawing
AbortExample ==
    /\ phase = "drawing"
    /\ phase' = "between"
    /\ heap' = [id \in UserDicts |-> heap[id]]
    /\ UNCHANGED <<slot, draws, accessed, handed, last, written, stframe>>

NextSt ==
    \/ BeginExample
    \/ \E d \in DictObjs : Draw_cats(d)
    \/ \E c \in DrawClasses, d \in DictObjs : Draw_getcat(c, d)
    \/ \E c \in DrawClasses, a \in Tagged, d \in DictObjs : Draw_classify(c, a, d)
    \/ \E c \in DrawClasses, onto \in Unions, d \in DictObjs :
           Draw_subdivide(c, onto, d)
    \/ RunBody
    \/ EndExample
    \/ AbortExample

SpecSt == InitSt /\ [][NextSt]_vars

\* ------------------------------- the layout changes under the checker
\* The checker is built on the shared layout before all of it is written:
\* a value is classified between CatChecker(cts, defs) and the exit of the
\* section.
LiveMarkers == {Str("empty"), Str("non-positive")}
LiveClasses == {"name", "age"}
LiveLayouts ==
    {l \in Layouts : Len(l) <= 1 /\ \A i \in DOMAIN l : l[i].ctg \in LiveMarkers}
LiveTables ==
    { NoTable, NameTable, NameTable \o AgeTable,
      Table1("age", "non-positive",
             One(RawDict("ValueError", PatAge, <<Req("name", "empty")>>))) }

ConstructLive == ConstructOf(LiveLayouts, LiveTables)

\* classify(class_name, cat(m, ...)) on the layout the checker holds:
\* cts[class_name] = catval[1] writes to the object self.cts refers to.
LayoutWrite ==
    /\ pc \in {"constructed", "pending"}
    /\ \E class_name \in LiveClasses, m \in LiveMarkers :
           /\ cts' = classify(cts, class_name, <<0, m>>).cts
           /\ last' = [NoDraw EXCEPT
                         !.op = "classify", !.cls = class_name,
                         !.catval = <<0, m>>,
                         !.had = HasKey(cts, class_name),
                         !.old = IF HasKey(cts, class_name)
                                 THEN Get(cts, class_name) ELSE None]
    /\ UNCHANGED <<pc, ctg_defs, exc, result, subject>>
    /\ UNCHANGED <<phase, heap, slot, draws, accessed, handed, written>>

\* __exit__ called once more on the checker that has rendered a verdict
Reexit(ex) ==
    /\ pc \in {"resolved", "resolved again"}
    /\ pc' = "resolved again"
    /\ exc' = ex
    /\ result' = CatChecker_exit(cts, ctg_defs, ex)
    /\ UNCHANGED <<cts, ctg_defs>>
    /\ UNCHANGED ckframe

NextLive ==
    \/ ConstructLive
    \/ Enter
    \/ LayoutWrite
    \/ \E ex \in Exceptions \cup {NoExc} : Exit(ex)
    \/ \E ex \in Exceptions \cup {NoExc} : Reexit(ex)

SpecLive == Init /\ [][NextLive]_vars

\* ------------------------------------- constructors and parsers called
\* what a direct call was given
Arg(a) == [guard |-> NoGuard, cat |-> None, arg |-> a]

\* the keys and the raw descriptors of the tables handed to parseCats
ParseKeys == {"empty", "non-empty"}
ParseCtgs == {
    \* records that omit the name
    Dict({"raises"}, "", "", One(RawNameGuard)),
    Dict({}, "", "", NoRaises),
    \* records with a name
    Dict({"name"}, "empty", "", NoRaises),
    Dict({"name", "raises"}, "non-empty", "", One(RawType("TypeError"))),
    Dict({"name"}, "", "", NoRaises),
    \* a record with a key ExCat does not take, a guard without 'err'
    Dict({"name", "extra"}, "empty", "", NoRaises),
    Dict({"raises"}, "", "", One(RawDict("", PatName, NoRequires))),
    \* descriptor objects
    CatObj("empty", "a comment"),
    CatObj("non-empty", ""),
    ExCatMarker,
    ExCat_init("non-empty", "", One(RawAgeRoleGuard)).val }

ParseEntries == [key : ParseKeys, ctg : ParseCtgs]
EntryLists ==
    {<<>>} \cup {<<e>> : e \in ParseEntries}
           \cup {<<e[1], e[2]>> : e \in {p \in ParseEntries \X ParseEntries :
                                             p[1].key # p[2].key}}
RawTables ==
    {<<>>} \cup {<<[cls |-> "name", entries |-> es]>> : es \in EntryLists}
           \cup {<<[cls |-> "name", entries |-> p[1]],
                    [cls |-> "age", entries |-> p[2]]>> :
                     p \in EntryLists \X {es \in EntryLists : Len(es) <= 1}}

\* parseCats(desc_layout)
Call_parseCats ==
    /\ pc = "caller"
    /\ pc' = "parseCats"
    /\ \E desc_layout \in RawTables :
           /\ subject' = Arg(desc_layout)
           /\ result' = parseCats(desc_layout)
    /\ UNCHANGED <<cts, ctg_defs, exc, stvars>>

\* the table parseCats returned for desc_layout, as the dict of dicts it
\* is: the classes and keys in the order they were inserted
ParsedAsRaw(desc_layout, parsed) ==
    [i \in DOMAIN desc_layout |->
        [cls |-> desc_layout[i].cls,
         entries |->
            [j \in DOMAIN desc_layout[i].entries |->
                Entry(desc_layout[i].entries[j].key,
                      parsed[desc_layout[i].cls][desc_layout[i].entries[j].key])]]]

\* CatChecker(cts, parsed) for the table parseCats has just returned: the
\* constructor parses it again
Reparse ==
    /\ pc = "parseCats"
    /\ result.raised = ""
    /\ pc' = "reparsed"
    /\ ctg_defs' = result.val
    /\ result' = CatChecker_init(ParsedAsRaw(subject.arg, result.val))
    /\ UNCHANGED <<cts, exc, subject, stvars>>

\* the names, comments and raises given to the constructors; "" is a
\* name or a comment that is None or ''
CtorNames == {"", "empty", "non-empty", "non-positive"}
CtorComments == {"", "a comment"}
CtorRaises == { NoRaises, One(RawNameGuard), One(RawType("TypeError")),
                Many(<<RawAgeGuard, RawNameGuard>>) }
CtorArgs(n, c, r) == [name |-> n, comment |-> c, raises |-> r]

\* Cat(name, comment)
Call_Cat ==
    /\ pc = "caller"
    /\ pc' = "Cat"
    /\ \E n \in CtorNames, c \in CtorComments :
           /\ subject' = Arg(CtorArgs(n, c, NoRaises))
           /\ result' = Cat_init(n, c)
    /\ UNCHANGED <<cts, ctg_defs, exc, stvars>>

\* ExCat(name, comment, raises)
Call_ExCat ==
    /\ pc = "caller"
    /\ pc' = "ExCat"
    /\ \E n \in CtorNames, c \in CtorComments, r \in CtorRaises :
           /\ subject' = Arg(CtorArgs(n, c, r))
           /\ result' = ExCat_init(n, c, r)
    /\ UNCHANGED <<cts, ctg_defs, exc, stvars>>

\* the markers whose name is resolved: those of the layouts and records
\* with a comment, without a name, with a key Cat does not take
NamedMarkers ==
    Markers \cup { Dict({"name", "comment"}, "non-empty", "a comment", NoRaises),
                   Dict({"comment"}, "", "a comment", NoRaises),
                   Dict({}, "", "", NoRaises),
                   Dict({"name", "extra"}, "empty", "", NoRaises),
                   CatObj("non-positive", "a comment") }

\* tryGetCatName(ctg)
Call_tryGetCatName ==
    /\ pc = "caller"
    /\ pc' = "tryGetCatName"
    /\ \E ctg \in NamedMarkers :
           /\ subject' = Arg(ctg)
           /\ result' = tryGetCatName(ctg)
    /\ UNCHANGED <<cts, ctg_defs, exc, stvars>>

\* the records given to ExCat.from_dict
FromDicts ==
    { Dict({"name"}, "empty", "", NoRaises),
      Dict({"name", "comment", "raises"}, "empty", "a comment",
           Many(<<RawAgeGuard, RawNameGuard>>)),
      DocMarker,
      Dict({"name", "extra"}, "empty", "", NoRaises),
      Dict({"name", "raises", "extra"}, "non-empty", "", One(RawAgeRoleGuard)),
      Dict({"name"}, "", "", NoRaises),
      Dict({"comment"}, "", "a comment", NoRaises) }

\* ExCat.from_dict(d)
Call_from_dict ==
    /\ pc = "caller"
    /\ pc' = "from_dict"
    /\ \E d \in FromDicts :
           /\ subject' = Arg(d)
           /\ result' = ExCat_from_dict(d)
    /\ UNCHANGED <<cts, ctg_defs, exc, stvars>>

\* back in the caller
ReturnPar ==
    /\ pc # "caller"
    /\ pc' = "caller"
    /\ ctg_defs' = EmptyMap
    /\ result' = NoResult
    /\ subject' = NoSubject
    /\ UNCHANGED <<cts, exc, stvars>>

NextPar ==
    \/ Call_parseCats
    \/ Reparse
    \/ Call_Cat
    \/ Call_ExCat
    \/ Call_tryGetCatName
    \/ Call_from_dict
    \/ ReturnPar

SpecPar == InitFn /\ [][NextPar]_vars

\* ----------------------------------------- the vocabulary of the properties
\* The name of a marker: the name attribute of a descriptor, the value
\* under the 'name' key of a record, otherwise its textual form.
NameOfMarker(m) ==
    IF m.shape \in {"Cat", "ExCat"} THEN m.name
    ELSE IF m.shape = "dict"
         THEN IF "name" \in m.keys THEN m.name ELSE "{...}"
         ELSE m.name

\* A marker that is a Guarded Category or a record describing one.
IsGuardedMarker(m) ==
    \/ m.shape = "ExCat"
    \/ m.shape = "dict" /\ {"name", "raises"} \subseteq m.keys

GuardsOfMarker(m) ==
    IF m.shape = "ExCat" THEN m.guards
    ELSE ExCat_init(m.name, m.comment, m.raises).val.guards

\* The guards of the category the marker of cls resolves to: those of the
\* marker when it is a Guarded Category, else those of the table entry of
\* its name.
GuardsOfClass(layout, defs, cls) ==
    LET m == Get(layout, cls)
    IN  IF IsGuardedMarker(m) THEN GuardsOfMarker(m)
        ELSE IF cls \in DOMAIN defs /\ NameOfMarker(m) \in DOMAIN defs[cls]
             THEN defs[cls][NameOfMarker(m)].guards
        ELSE <<>>

\* Every required class with a non-empty required name is in the layout
\* under a marker of that name.
ReqsMet(g, layout) ==
    \A i \in DOMAIN g.requires :
        g.requires[i].name # "" =>
            /\ HasKey(layout, g.requires[i].cls)
            /\ NameOfMarker(Get(layout, g.requires[i].cls)) = g.requires[i].name

\* The guard accepts ex: the kind, the pattern if any, the requirements.
Accepts(g, ex, layout) ==
    /\ IsInstance(ex.type, g.err)
    /\ (g.pattern = NoPattern \/ PatternMatch(g.pattern, ex.msg))
    /\ ReqsMet(g, layout)

SomeGuardAccepts(layout, defs, ex) ==
    \E i \in DOMAIN layout :
        LET gs == GuardsOfClass(layout, defs, layout[i].cls)
        IN  \E j \in DOMAIN gs : Accepts(gs[j], ex, layout)

SomeGuardSatisfied(layout, defs) ==
    \E i \in DOMAIN layout :
        LET gs == GuardsOfClass(layout, defs, layout[i].cls)
        IN  \E j \in DOMAIN gs : ReqsMet(gs[j], layout)

\* ------------------------------------------------------------ properties
\* C1: when the section exits with an exception that a guard of the
\* category of some class of the layout accepts (kind, pattern and
\* requirements), __exit__ returns True and raises nothing.
C1_ConsistentIsSuppressed ==
    (pc = "resolved" /\ exc # NoExc /\ SomeGuardAccepts(cts, ctg_defs, exc))
        => result = Ok(TRUE)

\* C2: when the section exits with an exception that no guard of the
\* category of any class of the layout accepts, __exit__ returns False and
\* raises nothing of its own.
C2_UnexpectedPropagates ==
    (pc = "resolved" /\ exc # NoExc /\ ~SomeGuardAccepts(cts, ctg_defs, exc))
        => result = Ok(FALSE)

\* C3: when the section exits normally, __exit__ raises AssertionError if
\* and only if some guard of the category of some class of the layout has
\* its requirements satisfied, whatever the kind and pattern of the guards.
C3_AbsentIffSatisfied ==
    (pc = "resolved" /\ exc = NoExc)
        => (result.raised = "AssertionError"
              <=> SomeGuardSatisfied(cts, ctg_defs))

\* C4: checkReqs returns True if and only if every required class with a
\* non-empty required name is a key of the layout and the name of its
\* marker equals the required name.
C4_CheckReqsIff ==
    pc = "checkReqs" => (result = Ok(TRUE) <=> ReqsMet(subject.guard, cts))

\* C5: ExCat.isExpected returns True if and only if at least one guard of
\* the list accepts the exception under the layout, wherever it stands in
\* the list.
C5_AnyGuardAccepts ==
    pc = "isExpected"
        => (result = Ok(TRUE)
              <=> \E j \in DOMAIN subject.cat.guards :
                      Accepts(subject.cat.guards[j], exc, cts))

\* C6: a guard without a pattern accepts every exception of its kind when
\* its requirements are satisfied, so __exit__ returns True; and on a normal
\* exit with its requirements satisfied __exit__ raises AssertionError.
PatternlessGuardOf(layout, defs, ex) ==
    \E i \in DOMAIN layout :
        LET gs == GuardsOfClass(layout, defs, layout[i].cls)
        IN  \E j \in DOMAIN gs :
                /\ gs[j].pattern = NoPattern
                /\ ReqsMet(gs[j], layout)
                /\ ex # NoExc => IsInstance(ex.type, gs[j].err)

C6_PatternIsOptional ==
    (pc = "resolved" /\ PatternlessGuardOf(cts, ctg_defs, exc))
        => IF exc # NoExc THEN result = Ok(TRUE)
           ELSE result.raised = "AssertionError"

\* C7: the guards of a marker that is a Guarded Category are used also
\* when the table is absent or has no entry for the class: an exception one
\* of them accepts is suppressed and a normal exit with one of them
\* satisfied raises AssertionError.
UntabledGuardedMarker(layout, defs, ex) ==
    \E i \in DOMAIN layout :
        /\ IsGuardedMarker(layout[i].ctg)
        /\ layout[i].cls \notin DOMAIN defs
        /\ LET gs == GuardsOfMarker(layout[i].ctg)
           IN  \E j \in DOMAIN gs :
                   IF ex # NoExc THEN Accepts(gs[j], ex, layout)
                   ELSE ReqsMet(gs[j], layout)

C7_MarkerGuardsUsedDirectly ==
    (pc = "resolved" /\ UntabledGuardedMarker(cts, ctg_defs, exc))
        => IF exc # NoExc THEN result = Ok(TRUE)
           ELSE result.raised = "AssertionError"

\* C8: after classify / subdivide draws the pair (v, m) of a tagged
\* strategy, the value it returns for the parameter is v and the shared
\* layout maps the class to m, the marker of the very strategy that
\* produced v.
C8_MarkerOfDeliveredValue ==
    (phase \in {"drawing", "body"} /\ last.op \in {"classify", "subdivide"})
        => /\ last.ret = last.catval[1]
           /\ HasKey(heap[slot], last.cls)
           /\ Get(heap[slot], last.cls) = last.catval[2]
           /\ last.catval[2] = last.alt.marker
           /\ last.ret \in last.alt.base

\* a value two strategies of the union can produce reaches the body
C8_Witness ==
    /\ phase = "body"
    /\ last.op = "subdivide"
    /\ last.ret = 0
    /\ last.alt.marker = Str("non-positive")
    /\ last.had /\ last.old # last.alt.marker

\* C9: a classify / subdivide draw for class c adds or overwrites the
\* entry under c with the drawn marker, raises nothing, and leaves every
\* other entry of the layout and every other dict unchanged.
C9_OneEntryWritten ==
    [][(draws' = draws + 1 /\ last'.op \in {"classify", "subdivide"})
        => LET id == slot'
               old == IF id \in DOMAIN heap THEN heap[id] ELSE <<>>
               new == heap'[id]
           IN  /\ last'.raised = ""
               /\ Keys(new) = Keys(old) \cup {last'.cls}
               /\ Len(new) = Cardinality(Keys(new))
               /\ Get(new, last'.cls) = last'.catval[2]
               /\ \A k \in Keys(old) \ {last'.cls} : Get(new, k) = Get(old, k)
               /\ \A o \in DOMAIN heap \ {id} :
                      o \in DOMAIN heap' /\ heap'[o] = heap[o]]_vars

\* a class is classified twice in one example, next to another entry
C9_Witness ==
    /\ phase = "drawing"
    /\ last.op \in {"classify", "subdivide"}
    /\ slot \notin UserDicts
    /\ last.had /\ last.old # last.catval[2]
    /\ Cardinality(Keys(heap[slot])) >= 2

\* C10: every layout access of one example returns the instance the first
\* access of the example instantiated (no dictObj) or adopted (its dictObj),
\* so the mapping cats() hands to the body shows every marker classify
\* wrote in the example.
C10_OneSharedInstance ==
    /\ \A id \in accessed.ids : id = accessed.first.id
    /\ accessed # NoAccess =>
          IF accessed.first.dictObj = 0 THEN accessed.first.id \notin UserDicts
          ELSE accessed.first.id = accessed.first.dictObj
    /\ (phase \in {"drawing", "body"} /\ handed # 0) =>
          \A c \in DOMAIN written :
              /\ HasKey(heap[handed], c)
              /\ Get(heap[handed], c) = written[c]

\* accesses with and without dictObj, classify after cats()
C10_Witness ==
    /\ phase = "body"
    /\ handed # 0
    /\ draws >= 3
    /\ accessed.args = DictObjs
    /\ last.op \in {"classify", "subdivide"}
    /\ DOMAIN written = DrawClasses

\* C11: every example starts with a layout of its own: whatever the layout
\* of the example holds was written in that example, with or without a
\* dictObj, also after examples that were given up while drawing.
C11_FreshLayoutPerExample ==
    (phase \in {"drawing", "body"} /\ slot # 0)
        => \A k \in Keys(heap[slot]) :
               k \in DOMAIN written /\ Get(heap[slot], k) = written[k]

\* C12: parseCats either fails or returns a table with the classes and keys
\* of its argument in which the name of every stored category equals its
\* key, the key standing in for a name the entry omits; an entry whose own
\* name differs from its key makes parseCats fail, with ValueError when
\* every record of the table has only keys ExCat takes.
HasOwnName(ctg) ==
    \/ ctg.shape \in {"Cat", "ExCat"}
    \/ ctg.shape = "dict" /\ "name" \in ctg.keys

TakenByExCat(ctg) ==
    ctg.shape = "dict" => ctg.keys \subseteq {"name", "comment", "raises"}

C13_NonEmptyNameOnly ==
    pc \in {"Cat", "ExCat"} =>
        /\ result.raised = "" <=> subject.arg.name # ""
        /\ subject.arg.name = "" => result.raised = "ValueError"
        /\ subject.arg.name # "" =>
               /\ result.val.shape = pc
               /\ result.val.name = subject.arg.name
               /\ tryGetCatName(result.val) = Ok(subject.arg.name)

\* a guarded descriptor is built for a non-empty name
C13_Witness ==
    /\ pc = "ExCat"
    /\ subject.arg.name = "non-positive"
    /\ subject.arg.raises # NoRaises
    /\ result.raised = ""
    /\ Len(result.val.guards) = 2

\* C14: for a checker that was constructed, __exit__ raises nothing when
\* the section exits with an exception, and nothing but AssertionError when
\* it exits normally, whatever the markers of the layout are (bare names,
\* records, descriptor objects).
C14_VerdictNeverRaises ==
    pc = "resolved" =>
        IF exc # NoExc THEN result.raised = ""
        ELSE result.raised \in {"", "AssertionError"}

\* C15: tryGetCatName returns the name attribute of a Cat or ExCat marker,
\* the value under 'name' of a record that has the key, whatever its other
\* keys, and the textual form of any other marker, a record without a
\* 'name' key included.
C15_NameResolution ==
    pc = "tryGetCatName" => result = Ok(NameOfMarker(subject.arg))

\* C16: the verdict does not change when a marker that is the bare name n
\* is replaced by the record {name: n} or by a plain Cat named n: a plain
\* marker of any shape is resolved against the entry of the table.
PlainShapes(n) == {Dict({"name"}, n, "", NoRaises), CatObj(n, "")}

C16_MarkerShapesAgree ==
    pc = "resolved" =>
        \A i \in DOMAIN cts :
            cts[i].ctg.shape = "str" =>
                \A m \in PlainShapes(cts[i].ctg.name) :
                    CatChecker_exit([cts EXCEPT ![i].ctg = m], ctg_defs, exc)
                        = result

\* C17: for a record d with a non-empty 'name', ExCat.from_dict(d) succeeds
\* and returns the category ExCat builds from the 'name', 'comment' and
\* 'raises' values of d, whatever other keys d has.
C17_FromDictIgnoresOtherKeys ==
    (pc = "from_dict" /\ "name" \in subject.arg.keys /\ subject.arg.name # "")
        => LET d == subject.arg
           IN  /\ result.raised = ""
               /\ result = ExCat_init(
                      d.name,
                      IF "comment" \in d.keys THEN d.comment ELSE "",
                      IF "raises" \in d.keys THEN d.raises ELSE NoRaises)

\* C18: when an entry of the layout is added or overwritten after the
\* checker was constructed, __exit__ decides, for an exception as for a
\* normal exit, on the layout as it is when the section exits: the layout
\* it reads holds the entry written last.
LayoutBeforeWrite ==
    IF last.had THEN Put(cts, last.cls, last.old)
    ELSE SubSeq(cts, 1, Len(cts) - 1)

C19_ParseTwice ==
    pc = "reparsed" =>
        /\ result = Ok(ctg_defs)
        /\ \A i \in DOMAIN subject.arg :
               \A j \in DOMAIN subject.arg[i].entries :
                   LET e == subject.arg[i].entries[j]
                       stored == ctg_defs[subject.arg[i].cls][e.key]
                   IN  /\ e.ctg.shape = "ExCat" => stored = e.ctg
                       /\ e.ctg.shape = "Cat"
                              => stored = ExCatObj(e.ctg.name, e.ctg.comment, <<>>)

\* a table with a plain Cat, an ExCat with guards and a record is parsed
\* twice
C19_Witness ==
    /\ pc = "reparsed"
    /\ Len(subject.arg) = 2
    /\ \E i, k \in DOMAIN subject.arg :
           /\ \E j \in DOMAIN subject.arg[i].entries :
                  subject.arg[i].entries[j].ctg.shape = "Cat"
           /\ \E j \in DOMAIN subject.arg[i].entries :
                  /\ subject.arg[i].entries[j].ctg.shape = "ExCat"
                  /\ subject.arg[i].entries[j].ctg.guards # <<>>
           /\ \E j \in DOMAIN subject.arg[k].entries :
                  /\ subject.arg[k].entries[j].ctg.shape = "dict"
                  /\ subject.arg[k].entries[j].ctg.raises # NoRaises

====
